---- MODULE Spec2Model ----
(***************************************************************************)
(* The PVL source of go/pvlsource/pvlsource.go: GetKitString with its      *)
(* merkle-root freshness checks, the in-memory and LocalDb caches, the      *)
(* verified server fetch and the detached db write.                        *)
(*                                                                         *)
(* Time is counted in hours.  An optional value (a Go pointer that may be  *)
(* nil) is a sequence of length 0 or 1.                                    *)
(***************************************************************************)
EXTENDS Integers, Sequences, FiniteSets, TLC

\* ---------------------------------------------------------------- bounds
\* Number of GetKitString calls, each made by its own goroutine.
NCallers == 2
\* The last instant of the clock.
MaxNow == 25

\* ------------------------------------------------------- program constants
tShouldRefresh == 1
tRequireRefresh == 24
dbVersion == 1

Callers == 1..NCallers

Nil == <<>>
Some(x) == <<x>>

\* The kit documents the server can hand out, and the text of an override file.
Kits == {"k1", "k2"}
FileTexts == {"k1", "arbitrary text"}

\* hex of sha512: a collision-free digest, here a table over the documents.
hash(in) ==
  CASE in = "k1" -> "h1"
    [] in = "k2" -> "h2"
    [] in = "arbitrary text" -> "h3"
    [] OTHER -> "h0"

\* The values root.PvlHash() can take.
PvlHashes == {"", "h1", "h2"}

\* The instants at which the clock is observed: they put the age of a root on
\* both sides of, and exactly on, each threshold.
TimePoints ==
  {0, tShouldRefresh, tRequireRefresh, MaxNow}

entry(v, h, pvl) == [DBVersion |-> v, Hash |-> h, PvlKit |-> pvl]

\* What LocalDb may hold under dbKey when the process starts: nothing, an entry
\* of this version, or an entry written before dbVersion was bumped.
StoredAtStart ==
  {Nil, Some(entry(dbVersion, "h1", "k1")), Some(entry(dbVersion - 1, "h1", "k1"))}

VARIABLES
  g,        \* the GlobalContext: Env.GetPvlKitFilename(), MerkleClient, LocalDb
  file,     \* the contents of the override file, Nil when it cannot be read
  now,      \* G().Clock().Now()
  lastRoot, \* MerkleClient.LastRoot()
  mem,      \* PvlSourceImpl.mem
  db,       \* the entry LocalDb holds under dbKey
  mu,       \* the holder of PvlSourceImpl's sync.Mutex
  cs,       \* each call of GetKitString: its position, locals and result
  bg,       \* the dbSet goroutines started and not yet run
  log,      \* the lines written to G().Log that tell what was used and stored
  put       \* the hash and document of the latest memSet followed by "go s.dbSet"

vars == <<g, file, now, lastRoot, mem, db, mu, cs, bg, log, put>>

\* A call before it starts.  diff1 and diff are the ages pastDue computed at
\* the refresh check and at the expiry check (-1: not computed).  dbErr: the
\* dbGet of the call got an error from GetInto; it is known until the call
\* asks the server.
NewCall ==
  [pc |-> "start", root |-> Nil, hash |-> "", ret |-> "", err |-> "",
   res |-> "", mem0 |-> Nil, diff1 |-> -1, diff |-> -1, refreshErr |-> FALSE,
   dbErr |-> FALSE,
   nLastRoot |-> 0, nRefresh |-> 0, nMemGet |-> 0, nDbGet |-> 0, nFetch |-> 0]

Init ==
  /\ g \in [PvlKitFilename : {"", "kit.json"}, MerkleClient : BOOLEAN,
            LocalDb : BOOLEAN]
  /\ file \in IF g.PvlKitFilename = "" THEN {Nil}
              ELSE {Nil} \cup {Some(t) : t \in FileTexts}
  /\ now = 0
  /\ lastRoot \in IF g.MerkleClient
                  THEN {Nil} \cup {Some([hash |-> h, fetched |-> 0]) : h \in PvlHashes}
                  ELSE {Nil}
  /\ mem = Nil
  /\ db \in IF g.LocalDb THEN StoredAtStart ELSE {Nil}
  /\ mu = Nil
  /\ cs = [c \in Callers |-> NewCall]
  /\ bg = {}
  /\ log = {}
  /\ put = Nil

\* ------------------------------------------------------------- functions

\* pastDue with the limit itself counted as overdue.
pastDueInclusive(event, limit) == (now - event) >= limit

pastDue(event, limit) == (now - event) > limit

\* memGet without the comparison of the hashes.
memGetAnyHash(h) == IF mem # Nil THEN Some(mem[1].PvlKit) ELSE Nil

\* memGet with the comparison of the hashes inverted.
memGetInverted(h) ==
  IF mem # Nil /\ mem[1].Hash # h THEN Some(mem[1].PvlKit) ELSE Nil

memGet(h) ==
  IF mem # Nil /\ mem[1].Hash = h THEN Some(mem[1].PvlKit) ELSE Nil

\* memSet that builds the entry and does not assign it to s.mem.
memSetDropped(h, pvl) == mem

memSet(h, pvl) == Some(entry(dbVersion, h, pvl))

\* dbGet without the comparison of ent.Hash with hash.
dbGetAnyHash(readErr, h) ==
  IF ~g.LocalDb THEN Nil
  ELSE IF readErr THEN Nil
  ELSE IF db = Nil THEN Nil
  ELSE Some(db[1].PvlKit)

\* dbGet that goes on to use the entry after an error of GetInto.
dbGetIgnoringErr(readErr, h) ==
  IF ~g.LocalDb THEN Nil
  ELSE IF db = Nil THEN Nil
  ELSE IF readErr \/ db[1].Hash = h THEN Some(db[1].PvlKit)
  ELSE Nil

\* readErr: GetInto returned an error.
dbGet(readErr, h) ==
  IF ~g.LocalDb THEN Nil
  ELSE IF readErr THEN Nil
  ELSE IF db = Nil THEN Nil
  ELSE IF db[1].DBVersion # db[1].DBVersion THEN Nil
  ELSE IF db[1].Hash = h THEN Some(db[1].PvlKit)
  ELSE Nil

\* The two cache lookups of GetKitString, in its order: the in-memory entry,
\* then LocalDb.  Nil is a miss.
Get(readErr, h) == IF memGet(h) # Nil THEN memGet(h) ELSE dbGet(readErr, h)

\* fetch without the comparison of s.hash(res.KitJSON) with hash.
fetchUnverified(apiErr, kitJSON, h) ==
  IF apiErr THEN [pvl |-> "", err |-> "Transport"]
  ELSE IF kitJSON = "" THEN [pvl |-> "", err |-> "EmptyPayload"]
  ELSE [pvl |-> kitJSON, err |-> ""]

\* apiErr: GetDecode returned an error; kitJSON: res.KitJSON.
fetch(apiErr, kitJSON, h) ==
  IF apiErr THEN [pvl |-> "", err |-> "Transport"]
  ELSE IF kitJSON = "" THEN [pvl |-> "", err |-> "EmptyPayload"]
  ELSE IF hash(kitJSON) # h THEN [pvl |-> "", err |-> "HashMismatch"]
  ELSE [pvl |-> kitJSON, err |-> ""]

readFile(path) ==
  IF file = Nil THEN [ret |-> "", err |-> "ReadFile"]
  ELSE [ret |-> file[1], err |-> ""]

\* --------------------------------------------------------------- actions

\* A call that has evaluated its return statement; a deferred
\* s.Unlock() has not run yet.
return(call, ret, err) == [call EXCEPT !.pc = "ret", !.ret = ret, !.err = err]

\* enter with the MerkleClient looked for before the override file.
enterMerkleFirst(call) ==
  IF ~g.MerkleClient THEN return(call, "", "NoMerkleClient")
  ELSE IF g.PvlKitFilename # ""
  THEN return(call, readFile(g.PvlKitFilename).ret, readFile(g.PvlKitFilename).err)
  ELSE [call EXCEPT !.pc = "lock"]

\* GetKitString up to s.Lock(): the override file and the MerkleClient check.
enter(call) ==
  IF g.PvlKitFilename # ""
  THEN return(call, readFile(g.PvlKitFilename).ret, readFile(g.PvlKitFilename).err)
  ELSE IF ~g.MerkleClient THEN return(call, "", "NoMerkleClient")
  ELSE [call EXCEPT !.pc = "lock"]

GetKitStringEnter(c) ==
  /\ cs[c].pc = "start"
  /\ cs' = [cs EXCEPT ![c] = enter(@)]
  /\ UNCHANGED <<g, file, now, lastRoot, mem, db, mu, bg, log, put>>

\* shouldRefresh for an old root only.
shouldRefreshOldOnly(root) == root # Nil /\ pastDue(root[1].fetched, tShouldRefresh)

\* (root == nil) || s.pastDue(ctx, root.Fetched(), tShouldRefresh)
shouldRefresh(root) == root = Nil \/ pastDue(root[1].fetched, tShouldRefresh)

\* LockAndReadRoot with an s.Lock() that does not wait for the holder.
LockAndReadRootNoWait(c) ==
  /\ cs[c].pc = "lock"
  /\ mu' = Some(c)
  /\ cs' = [cs EXCEPT ![c] =
       [@ EXCEPT !.root = lastRoot,
                 !.nLastRoot = 1,
                 !.mem0 = mem,
                 !.diff1 = IF lastRoot = Nil THEN -1 ELSE now - lastRoot[1].fetched,
                 !.pc = IF shouldRefresh(lastRoot) THEN "refresh" ELSE "check"]]
  /\ UNCHANGED <<g, file, now, lastRoot, mem, db, bg, log, put>>

\* s.Lock(), root := mc.LastRoot() and the refresh check.
LockAndReadRoot(c) ==
  /\ cs[c].pc = "lock"
  /\ mu = Nil
  /\ mu' = Some(c)
  /\ cs' = [cs EXCEPT ![c] =
       [@ EXCEPT !.root = lastRoot,
                 !.nLastRoot = 1,
                 !.mem0 = mem,
                 !.diff1 = IF lastRoot = Nil THEN -1 ELSE now - lastRoot[1].fetched,
                 !.pc = IF shouldRefresh(lastRoot) THEN "refresh" ELSE "check"]]
  /\ UNCHANGED <<g, file, now, lastRoot, mem, db, bg, log, put>>

\* afterRefresh without "root = mc.LastRoot()" after a refresh that succeeded.
afterRefreshNoReread(call, err, latest) ==
  [call EXCEPT !.nRefresh = @ + 1,
               !.refreshErr = err,
               !.nLastRoot = IF err THEN @ ELSE @ + 1,
               !.pc = "check"]

\* afterRefresh with the error of the refresh returned to the caller.
afterRefreshFatal(call, err, latest) ==
  IF err
  THEN return([call EXCEPT !.nRefresh = @ + 1, !.refreshErr = err], "", "Refresh")
  ELSE [call EXCEPT !.nRefresh = @ + 1, !.refreshErr = err, !.root = latest,
                    !.nLastRoot = @ + 1, !.pc = "check"]

\* The locals of a call after err := s.refreshRoot(ctx): a failure is logged
\* and the root read before is kept, a success re-reads mc.LastRoot().
afterRefresh(call, err, latest) ==
  [call EXCEPT !.nRefresh = @ + 1,
               !.refreshErr = err,
               !.root = IF err THEN @ ELSE latest,
               !.nLastRoot = IF err THEN @ ELSE @ + 1,
               !.pc = "check"]

\* s.refreshRoot(ctx): MerkleClient.LookupUser returns with or without an
\* error (a cancelled ctx is an error), having stored a newly fetched root or not.
RefreshRoot(c) ==
  /\ cs[c].pc = "refresh"
  /\ \E err \in BOOLEAN :
       \E latest \in {lastRoot} \cup
                     {Some([hash |-> h, fetched |-> now]) : h \in PvlHashes} :
         /\ lastRoot' = latest
         /\ cs' = [cs EXCEPT ![c] = afterRefresh(@, err, latest)]
  /\ UNCHANGED <<g, file, now, mem, db, mu, bg, log, put>>

\* checkRoot that does not return what memGet found.
checkRootNoMemHit(call) ==
  IF call.root = Nil THEN return(call, "", "NoAnchor")
  ELSE LET age == now - call.root[1].fetched
           aged == [call EXCEPT !.diff = age]
           h == call.root[1].hash
           looked == [aged EXCEPT !.hash = h, !.nMemGet = 1]
       IN IF pastDue(call.root[1].fetched, tRequireRefresh)
          THEN return(aged, "", "StaleAnchor")
          ELSE IF h = "" THEN return(aged, "", "NoHash")
          ELSE [looked EXCEPT !.pc = "dbget"]

\* checkRoot without the test for an empty hash.
checkRootAnyHash(call) ==
  IF call.root = Nil THEN return(call, "", "NoAnchor")
  ELSE LET age == now - call.root[1].fetched
           aged == [call EXCEPT !.diff = age]
           h == call.root[1].hash
           looked == [aged EXCEPT !.hash = h, !.nMemGet = 1]
       IN IF pastDue(call.root[1].fetched, tRequireRefresh)
          THEN return(aged, "", "StaleAnchor")
          ELSE IF memGet(h) # Nil THEN return(looked, memGet(h)[1], "")
          ELSE [looked EXCEPT !.pc = "dbget"]

\* From "if root == nil" to the in-memory lookup.
checkRoot(call) ==
  IF call.root = Nil THEN return(call, "", "NoAnchor")
  ELSE LET age == now - call.root[1].fetched
           aged == [call EXCEPT !.diff = age]
           h == call.root[1].hash
           looked == [aged EXCEPT !.hash = h, !.nMemGet = 1]
       IN IF pastDue(call.root[1].fetched, tRequireRefresh)
          THEN return(aged, "", "StaleAnchor")
          ELSE IF h = "" THEN return(aged, "", "NoHash")
          ELSE IF memGet(h) # Nil THEN return(looked, memGet(h)[1], "")
          ELSE [looked EXCEPT !.pc = "dbget"]

\* The line "PvlSource: using hash: %s" a successful call logs.
using(h) == [msg |-> "using hash", hash |-> h]

CheckRoot(c) ==
  /\ cs[c].pc = "check"
  /\ cs' = [cs EXCEPT ![c] = checkRoot(@)]
  /\ log' = IF checkRoot(cs[c]).pc = "ret" /\ checkRoot(cs[c]).err = ""
            THEN log \cup {using(checkRoot(cs[c]).hash)} ELSE log
  /\ UNCHANGED <<g, file, now, lastRoot, mem, db, mu, bg, put>>

\* DbGet that also starts a dbSet goroutine for the document it found.
DbGetAndWrite(c) ==
  /\ cs[c].pc = "dbget"
  /\ \E readErr \in BOOLEAN :
       LET fromDB == dbGet(readErr, cs[c].hash)
           read == [cs[c] EXCEPT !.nDbGet = 1, !.dbErr = g.LocalDb /\ readErr]
       IN IF fromDB # Nil
          THEN /\ mem' = memSet(cs[c].hash, fromDB[1])
               /\ bg' = bg \cup {[by |-> c, Hash |-> cs[c].hash, PvlKit |-> fromDB[1]]}
               /\ log' = log \cup {using(cs[c].hash)}
               /\ cs' = [cs EXCEPT ![c] = return(read, fromDB[1], "")]
          ELSE /\ UNCHANGED <<mem, log, bg>>
               /\ cs' = [cs EXCEPT ![c] = [read EXCEPT !.pc = "fetch"]]
  /\ UNCHANGED <<g, file, now, lastRoot, db, mu, put>>

\* fromDB := s.dbGet(ctx, hash); a hit is stored to memory and returned.
DbGet(c) ==
  /\ cs[c].pc = "dbget"
  /\ \E readErr \in BOOLEAN :
       LET fromDB == dbGet(readErr, cs[c].hash)
           read == [cs[c] EXCEPT !.nDbGet = 1, !.dbErr = g.LocalDb /\ readErr]
       IN IF fromDB # Nil
          THEN /\ mem' = memSet(cs[c].hash, fromDB[1])
               /\ log' = log \cup {using(cs[c].hash)}
               /\ cs' = [cs EXCEPT ![c] = return(read, fromDB[1], "")]
          ELSE /\ UNCHANGED <<mem, log>>
               /\ cs' = [cs EXCEPT ![c] = [read EXCEPT !.pc = "fetch"]]
  /\ UNCHANGED <<g, file, now, lastRoot, db, mu, bg, put>>

\* The dbSet goroutine a call starts, not yet run.
task(c, h, pvl) == [by |-> c, Hash |-> h, PvlKit |-> pvl]

\* dbSet called in the foreground: the entry is stored before the return.
goDbSetWaiting(c, h, pvl) ==
  [bg |-> bg, db |-> IF g.LocalDb THEN Some(entry(dbVersion, h, pvl)) ELSE db]

\* go s.dbSet(context.Background(), hash, pvl)
goDbSet(c, h, pvl) == [bg |-> bg \cup {task(c, h, pvl)}, db |-> db]

\* Fetch that stores a document to memory before looking at fetch's error.
FetchStoresFirst(c) ==
  /\ cs[c].pc = "fetch"
  /\ \E apiErr \in BOOLEAN :
       \E kitJSON \in IF apiErr THEN {""} ELSE {""} \cup Kits :
         LET got == fetch(apiErr, kitJSON, cs[c].hash)
             asked == [cs[c] EXCEPT !.nFetch = 1, !.res = kitJSON, !.dbErr = FALSE]
         IN IF got.err # ""
            THEN /\ cs' = [cs EXCEPT ![c] = return(asked, "", got.err)]
                 /\ mem' = IF kitJSON # "" THEN memSet(cs[c].hash, kitJSON) ELSE mem
                 /\ UNCHANGED <<db, bg, log, put>>
            ELSE /\ mem' = memSet(cs[c].hash, got.pvl)
                 /\ bg' = goDbSet(c, cs[c].hash, got.pvl).bg
                 /\ db' = goDbSet(c, cs[c].hash, got.pvl).db
                 /\ log' = log \cup {using(cs[c].hash)}
                 /\ put' = Some([Hash |-> cs[c].hash, PvlKit |-> got.pvl])
                 /\ cs' = [cs EXCEPT ![c] = return(asked, got.pvl, "")]
  /\ UNCHANGED <<g, file, now, lastRoot, mu>>

\* pvl, err := s.fetch(ctx, hash) when the server answers, then the store to
\* memory and "go s.dbSet(...)".
Fetch(c) ==
  /\ cs[c].pc = "fetch"
  /\ \E apiErr \in BOOLEAN :
       \E kitJSON \in IF apiErr THEN {""} ELSE {""} \cup Kits :
         LET got == fetch(apiErr, kitJSON, cs[c].hash)
             asked == [cs[c] EXCEPT !.nFetch = 1, !.res = kitJSON, !.dbErr = FALSE]
         IN IF got.err # ""
            THEN /\ cs' = [cs EXCEPT ![c] = return(asked, "", got.err)]
                 /\ UNCHANGED <<mem, db, bg, log, put>>
            ELSE /\ mem' = memSet(cs[c].hash, got.pvl)
                 /\ bg' = goDbSet(c, cs[c].hash, got.pvl).bg
                 /\ db' = goDbSet(c, cs[c].hash, got.pvl).db
                 /\ log' = log \cup {using(cs[c].hash)}
                 /\ put' = Some([Hash |-> cs[c].hash, PvlKit |-> got.pvl])
                 /\ cs' = [cs EXCEPT ![c] = return(asked, got.pvl, "")]
  /\ UNCHANGED <<g, file, now, lastRoot, mu>>

\* A call that has returned: its result is the caller's, its locals are gone.
returned(call) == [NewCall EXCEPT !.pc = "done"]

\* unlocked with the mutex kept on the return of an expired root.
unlockedButStale(c) ==
  IF mu = Some(c) /\ cs[c].err # "StaleAnchor" THEN Nil ELSE mu

\* The mutex once the function has returned: the deferred s.Unlock() has run
\* if the call got as far as s.Lock().
unlocked(c) == IF mu = Some(c) THEN Nil ELSE mu

Return(c) ==
  /\ cs[c].pc = "ret"
  /\ mu' = unlocked(c)
  /\ cs' = [cs EXCEPT ![c] = returned(@)]
  /\ UNCHANGED <<g, file, now, lastRoot, mem, db, bg, log, put>>

\* dbSet that takes the Hash from s.mem when it runs, not from its argument.
dbSetHashOfMem(t, putErr) ==
  IF ~g.LocalDb \/ putErr
  THEN [store |-> db, log |-> {[msg |-> "storing pvl", hash |-> ""]}]
  ELSE [store |-> Some(entry(dbVersion, IF mem = Nil THEN t.Hash ELSE mem[1].Hash,
                             t.PvlKit)),
        log |-> {}]

\* The dbSet goroutine: no db or a failed PutObj is logged as an error,
\* otherwise the entry is stored.
dbSet(t, putErr) ==
  IF ~g.LocalDb \/ putErr
  THEN [store |-> db, log |-> {[msg |-> "storing pvl", hash |-> ""]}]
  ELSE [store |-> Some(entry(dbVersion, t.Hash, t.PvlKit)), log |-> {}]

DbSet(t) ==
  /\ t \in bg
  /\ bg' = bg \ {t}
  /\ \E putErr \in BOOLEAN :
       /\ db' = dbSet(t, putErr).store
       /\ log' = log \cup dbSet(t, putErr).log
  /\ UNCHANGED <<g, file, now, lastRoot, mem, mu, cs, put>>

\* Time passes.
Tick ==
  /\ \E t \in TimePoints : t > now /\ now' = t
  /\ UNCHANGED <<g, file, lastRoot, mem, db, mu, cs, bg, log, put>>

\* The MerkleClient fetches a root on behalf of some other part of the process.
MerkleFetch ==
  /\ g.MerkleClient
  /\ \E h \in PvlHashes : lastRoot' = Some([hash |-> h, fetched |-> now])
  /\ lastRoot' # lastRoot
  /\ UNCHANGED <<g, file, now, mem, db, mu, cs, bg, log, put>>

Next ==
  \/ \E c \in Callers : GetKitStringEnter(c)
  \/ \E c \in Callers : LockAndReadRoot(c)
  \/ \E c \in Callers : RefreshRoot(c)
  \/ \E c \in Callers : CheckRoot(c)
  \/ \E c \in Callers : DbGet(c)
  \/ \E c \in Callers : Fetch(c)
  \/ \E c \in Callers : Return(c)
  \/ \E t \in bg : DbSet(t)
  \/ Tick
  \/ MerkleFetch

Spec == Init /\ [][Next]_vars

\* The same engine started with nothing under dbKey: both caches are cold.
InitCold == Init /\ db = Nil

SpecCold == InitCold /\ [][Next]_vars

\* A step of call c once it has been made.
Proceed(c) ==
  \/ LockAndReadRoot(c)
  \/ RefreshRoot(c)
  \/ CheckRoot(c)
  \/ DbGet(c)
  \/ Fetch(c)
  \/ Return(c)

\* The engine as GetKitString locks it: no override file, a MerkleClient, and
\* a LocalDb with nothing under dbKey.
InitLocking ==
  Init /\ g.PvlKitFilename = "" /\ g.MerkleClient /\ g.LocalDb /\ db = Nil

\* Fair scheduling: while some call can take a step, one of them does; the
\* MerkleClient, LocalDb and the server answer every request (with a result
\* or an error).
FairSpec ==
  /\ InitLocking /\ [][Next]_vars
  /\ WF_vars(\E c \in Callers : Proceed(c))

\* Return, with the tally of what the call did left in its record.
ReturnCounted(c) ==
  /\ cs[c].pc = "ret"
  /\ mu' = unlocked(c)
  /\ cs' = [cs EXCEPT ![c] = [returned(@) EXCEPT !.nMemGet = cs[c].nMemGet,
                                                   !.nDbGet = cs[c].nDbGet,
                                                   !.nFetch = cs[c].nFetch]]
  /\ UNCHANGED <<g, file, now, lastRoot, mem, db, bg, log, put>>

\* The engine with both caches cold and no override, the merkle roots all
\* carrying the one hash h1, and a server that answers every request with
\* the document of that hash.
InitOneHash ==
  /\ InitCold /\ g.PvlKitFilename = "" /\ g.MerkleClient
  /\ (lastRoot # Nil => lastRoot[1].hash = "h1")

OneHash ==
  /\ (lastRoot # Nil => lastRoot[1].hash = "h1")
  /\ \A c \in Callers : (cs[c].pc = "ret" /\ cs[c].nFetch = 1) => cs[c].res = "k1"

\* The steps of Next; those of the MerkleClient and of the server are the
\* ones that keep OneHash.
NextOneHash ==
  \/ \E c \in Callers : GetKitStringEnter(c)
  \/ \E c \in Callers : LockAndReadRoot(c)
  \/ \E c \in Callers : RefreshRoot(c) /\ OneHash'
  \/ \E c \in Callers : CheckRoot(c)
  \/ \E c \in Callers : DbGet(c)
  \/ \E c \in Callers : Fetch(c) /\ OneHash'
  \/ \E c \in Callers : ReturnCounted(c)
  \/ \E t \in bg : DbSet(t)
  \/ Tick
  \/ MerkleFetch /\ OneHash'

SpecOneHash == InitOneHash /\ [][NextOneHash]_vars

\* ------------------------------------------------------------------ GetPVL

\* The values of pvlVersion GetPVL is called with.
Versions == {3, 5, 7}

\* A json.RawMessage is a sequence of bytes; string(sub) is the same sequence.
\* What json.Unmarshal makes of a document: an error, or the kit with its
\* Tab.  k1 carries rulesets for the versions 3 and 7, k2 carries version 3
\* with a ruleset of no bytes; the other texts are not kits.
NoTab == [v \in {} |-> <<>>]

unmarshal(kitJSON) ==
  CASE kitJSON = "k1" ->
         [err |-> "", Tab |-> (3 :> <<"{", "3", "}">>) @@ (7 :> <<"{", "7", "}">>)]
    [] kitJSON = "k2" -> [err |-> "", Tab |-> (3 :> <<>>)]
    [] OTHER -> [err |-> "Unmarshal", Tab |-> NoTab]

\* getPVL without the test of ok: a missing key reads as a ruleset of no bytes.
getPVLNoOk(kitJSON, err, pvlVersion) ==
  IF err # "" THEN [ret |-> <<>>, err |-> err]
  ELSE LET kit == unmarshal(kitJSON)
       IN IF kit.err # "" THEN [ret |-> <<>>, err |-> kit.err]
          ELSE IF pvlVersion \notin DOMAIN kit.Tab \/ Len(kit.Tab[pvlVersion]) = 0
          THEN [ret |-> <<>>, err |-> "EmptyVersion"]
          ELSE [ret |-> kit.Tab[pvlVersion], err |-> ""]

\* getPVL without the test of len(sub).
getPVLNoLen(kitJSON, err, pvlVersion) ==
  IF err # "" THEN [ret |-> <<>>, err |-> err]
  ELSE LET kit == unmarshal(kitJSON)
       IN IF kit.err # "" THEN [ret |-> <<>>, err |-> kit.err]
          ELSE IF pvlVersion \notin DOMAIN kit.Tab
          THEN [ret |-> <<>>, err |-> "MissingVersion"]
          ELSE [ret |-> kit.Tab[pvlVersion], err |-> ""]

\* GetPVL once s.GetKitString(ctx) has returned (kitJSON, err).
getPVL(kitJSON, err, pvlVersion) ==
  IF err # "" THEN [ret |-> <<>>, err |-> err]
  ELSE LET kit == unmarshal(kitJSON)
       IN IF kit.err # "" THEN [ret |-> <<>>, err |-> kit.err]
          ELSE IF pvlVersion \notin DOMAIN kit.Tab
          THEN [ret |-> <<>>, err |-> "MissingVersion"]
          ELSE IF Len(kit.Tab[pvlVersion]) = 0
          THEN [ret |-> <<>>, err |-> "EmptyVersion"]
          ELSE [ret |-> kit.Tab[pvlVersion], err |-> ""]

\* What GetKitString hands back to GetPVL: a document (a kit, another text,
\* or nothing at all) or an error.
KitStrings ==
  {[ret |-> k, err |-> ""] : k \in Kits \cup FileTexts \cup {""}}
    \cup {[ret |-> "", err |-> e] : e \in {"NoAnchor", "HashMismatch"}}

\* A call of GetPVL(ctx, pvlVersion) to which GetKitString has returned.
PvlCall(v, got) ==
  [pc |-> "kit", pvlVersion |-> v, kitJSON |-> got.ret, kitErr |-> got.err,
   ret |-> <<>>, err |-> ""]

\* Calls of GetPVL on an engine at rest.
InitPVL ==
  /\ g = [PvlKitFilename |-> "", MerkleClient |-> TRUE, LocalDb |-> TRUE]
  /\ file = Nil /\ now = 0 /\ lastRoot = Nil /\ mem = Nil /\ db = Nil
  /\ mu = Nil /\ bg = {} /\ log = {} /\ put = Nil
  /\ cs \in [Callers -> {PvlCall(v, got) : v \in Versions, got \in KitStrings}]

\* From "if err != nil" after GetKitString to the return of GetPVL.
GetPVL(c) ==
  /\ cs[c].pc = "kit"
  /\ LET out == getPVL(cs[c].kitJSON, cs[c].kitErr, cs[c].pvlVersion)
     IN cs' = [cs EXCEPT ![c] = [@ EXCEPT !.pc = "done", !.ret = out.ret,
                                          !.err = out.err]]
  /\ UNCHANGED <<g, file, now, lastRoot, mem, db, mu, bg, log, put>>

NextPVL == \E c \in Callers : GetPVL(c)

SpecPVL == InitPVL /\ [][NextPVL]_vars

\* ------------------------------------------------------------ properties

\* The positions of a call after the refresh check and the refresh attempt.
Checked == {"dbget", "fetch", "ret"}

\* The call has looked into no cache and asked the server for nothing, and
\* the in-memory entry is the one it found when it took the lock.
NoLookup(call) ==
  /\ call.nMemGet = 0 /\ call.nDbGet = 0 /\ call.nFetch = 0
  /\ mem = call.mem0

\* A step of some call of GetKitString.
CallStep == \E c \in Callers : cs'[c] # cs[c]

\* C1: a call whose server fetch returned a non-empty document with a digest
\* other than the requested hash returns HashMismatch and no document, has
\* started no dbSet goroutine and leaves the in-memory entry as it found it;
\* no step of a call changes what LocalDb holds.
C1_Case(call) ==
  call.pc = "ret" /\ call.nFetch = 1 /\ call.res # "" /\ hash(call.res) # call.hash

C1_MismatchRejected ==
  [][/\ \A c \in Callers :
          C1_Case(cs'[c]) =>
            (/\ cs'[c].err = "HashMismatch"
             /\ cs'[c].ret = ""
             /\ mem' = cs'[c].mem0
             /\ ~\E t \in bg' : t.by = c)
      /\ (CallStep => db' = db)]_vars

C1_Witness ==
  \E c \in Callers :
    C1_Case(cs[c]) /\ cs[c].err = "HashMismatch" /\ mem # Nil /\ db # Nil

\* C2: on a miss in memory, an entry of LocalDb whose DBVersion is not
\* dbVersion is a miss: dbGet leaves the memory entry alone and the call goes
\* on to the server fetch, with no error.
C2_OldVersionIsMiss ==
  [][\A c \in Callers :
       (/\ cs[c].pc = "dbget" /\ cs'[c] # cs[c]
        /\ db # Nil /\ db[1].DBVersion # dbVersion)
       => (cs'[c].pc = "fetch" /\ mem' = mem /\ cs'[c].err = "")]_vars

\* C3 as stated: a root whose age at the expiry check is 24h or more fails
\* with StaleAnchor, with no cache lookup and no fetch.
C3_Original ==
  \A c \in Callers :
    cs[c].diff >= tRequireRefresh =>
      cs[c].pc = "ret" /\ cs[c].err = "StaleAnchor" /\ NoLookup(cs[c])

\* C3 amended: a root older than 24h at the expiry check fails with
\* StaleAnchor, with no cache lookup and no fetch, whatever the refresh did
\* and whatever the caches hold; a root of exactly 24h or less is not expired.
C3_StaleAnchor ==
  \A c \in Callers :
    /\ (cs[c].diff > tRequireRefresh =>
          cs[c].pc = "ret" /\ cs[c].err = "StaleAnchor" /\ NoLookup(cs[c]))
    /\ (cs[c].diff <= tRequireRefresh => cs[c].err # "StaleAnchor")

C3_Witness ==
  \E c \in Callers :
    /\ cs[c].pc = "ret" /\ cs[c].err = "StaleAnchor"
    /\ cs[c].nRefresh = 1 /\ ~cs[c].refreshErr
    /\ mem # Nil /\ mem[1].Hash = cs[c].root[1].hash

\* The call, at its return, was served by a cache or by a verified fetch.
Served(call) ==
  /\ call.pc = "ret" /\ call.nMemGet = 1
  /\ \/ call.nDbGet = 0
     \/ call.nFetch = 0
     \/ (call.res # "" /\ hash(call.res) = call.hash)

\* What C4 says of a call whose root has an age in the set ages at the
\* refresh check: one refresh attempt; a failed attempt is not returned and
\* leaves the call with the root read before it; the call then succeeds
\* with the document of that root's hash whenever a cache or the fetch serves it.
C4_Refreshes(ages) ==
  \A c \in Callers :
    cs'[c].diff1 \in ages =>
      /\ cs'[c].pc \in Checked \cup {"check"} => cs'[c].nRefresh = 1
      /\ (cs[c].pc = "refresh" /\ cs'[c] # cs[c] /\ cs'[c].refreshErr) =>
           (cs'[c].pc = "check" /\ cs'[c].root = cs[c].root /\ cs'[c].err = "")
      /\ (cs'[c].refreshErr /\ Served(cs'[c])) =>
           (/\ cs'[c].err = ""
            /\ cs'[c].hash = cs'[c].root[1].hash
            /\ hash(cs'[c].ret) = cs'[c].hash)

\* C4 as stated: ages from 1h up to, not including, 24h.
C4_Original == [][C4_Refreshes(tShouldRefresh .. tRequireRefresh - 1)]_vars

\* C4 amended: a root older than 1h and younger than 24h at the refresh check
\* gets exactly one refresh attempt, whose failure is not returned: the call
\* goes on with the root read before and succeeds whenever a cache or the
\* fetch serves that root's hash.  A root of exactly 1h or less is not refreshed.
C4_StaleableRefresh ==
  [][/\ C4_Refreshes(tShouldRefresh + 1 .. tRequireRefresh - 1)
     /\ \A c \in Callers :
          (cs'[c].diff1 \in 0 .. tShouldRefresh) => cs'[c].nRefresh = 0]_vars

C4_Witness ==
  \E c \in Callers :
    /\ cs[c].diff1 \in tShouldRefresh + 1 .. tRequireRefresh - 1
    /\ cs[c].nRefresh = 1 /\ cs[c].refreshErr
    /\ Served(cs[c]) /\ cs[c].err = "" /\ cs[c].nFetch = 1

\* Every call has returned and every dbSet goroutine has run without an error.
Quiescent ==
  /\ \A c \in Callers : cs[c].pc = "done"
  /\ bg = {}
  /\ ~\E l \in log : l.msg = "storing pvl"

\* The hashes the successful calls used.
UsedHashes == {l.hash : l \in {m \in log : m.msg = "using hash"}}

\* C5 as stated: from cold caches, once all calls have returned and all
\* writes have succeeded, memory and LocalDb hold the same entry.
C5_Original == Quiescent => mem = db

\* C5 amended: the same, provided the successful calls all used one hash.
\* (With two hashes the dbSet goroutines may run in either order and LocalDb
\* may keep the older entry.)
C5_ColdCallersAgree == (Quiescent /\ Cardinality(UsedHashes) <= 1) => mem = db

C5_Witness ==
  /\ Quiescent /\ Cardinality(UsedHashes) = 1
  /\ mem # Nil /\ mem = db
  /\ g.LocalDb /\ g.PvlKitFilename = ""

C7_DetachedWrite ==
  [][/\ \A c \in Callers :
          (cs[c].pc = "fetch" /\ cs'[c].pc = "ret" /\ cs'[c].err = "") =>
            (/\ cs'[c].ret = cs'[c].res
             /\ mem' = Some(entry(dbVersion, cs[c].hash, cs'[c].ret))
             /\ task(c, cs[c].hash, cs'[c].ret) \in bg'
             /\ db' = db)
      /\ ((bg' # bg /\ bg' \subseteq bg) => (cs' = cs /\ mem' = mem /\ mu' = mu))
      /\ (bg # {} => ENABLED (\E t \in bg : DbSet(t)))]_vars

C7_Witness ==
  \E t \in bg :
    /\ cs[t.by].pc = "done"
    /\ mem = Some(entry(dbVersion, t.Hash, t.PvlKit))
    /\ db = Nil
    /\ mu # Nil

\* C8: with an override file configured, a call goes from its start straight
\* to its return with the contents of the file (or the error of reading it):
\* it never takes the mutex, reads no root, refreshes nothing, looks into no
\* cache and fetches nothing, and its steps leave the root, both caches and
\* the goroutines as they are.
C8_Override ==
  [][g.PvlKitFilename # "" =>
       (/\ \A c \in Callers :
             /\ cs'[c].pc \in {"start", "ret", "done"}
             /\ cs'[c].nLastRoot = 0 /\ cs'[c].nRefresh = 0
             /\ cs'[c].nMemGet = 0 /\ cs'[c].nDbGet = 0 /\ cs'[c].nFetch = 0
             /\ (cs'[c].pc = "ret" =>
                   IF file = Nil THEN cs'[c].err = "ReadFile"
                   ELSE cs'[c].err = "" /\ cs'[c].ret = file[1])
        /\ (CallStep => UNCHANGED <<lastRoot, mem, db, mu, bg>>))]_vars

C8_Witness ==
  \E c \in Callers :
    /\ ~g.MerkleClient /\ lastRoot = Nil /\ db # Nil
    /\ cs[c].pc = "ret" /\ cs[c].err = "" /\ cs[c].ret = "arbitrary text"

\* The first read of the root by the call reported none.
FirstReadNil(call) == call.nLastRoot >= 1 /\ call.diff1 = -1

\* C9 as stated: no root at the first read fails with NoAnchor, with no
\* cache lookup and no fetch.
C9_Original ==
  \A c \in Callers :
    (cs[c].pc \in Checked /\ FirstReadNil(cs[c])) =>
      cs[c].pc = "ret" /\ cs[c].err = "NoAnchor" /\ NoLookup(cs[c])

\* C9 amended: no root at the first read leads to one refresh attempt; the
\* call fails with NoAnchor, with no cache lookup and no fetch, exactly when
\* it has no root after that attempt (the refresh failed, or the re-read
\* reported none again); with a root after the refresh it goes on.
C9_NoAnchor ==
  \A c \in Callers :
    /\ (cs[c].pc \in Checked \cup {"check"} /\ FirstReadNil(cs[c])) =>
         cs[c].nRefresh = 1
    /\ (cs[c].pc \in Checked /\ cs[c].nLastRoot >= 1 /\ cs[c].root = Nil) =>
         (cs[c].pc = "ret" /\ cs[c].err = "NoAnchor" /\ NoLookup(cs[c]))
    /\ cs[c].err = "NoAnchor" => (cs[c].root = Nil /\ FirstReadNil(cs[c]))

C9_Witness ==
  \E c \in Callers :
    /\ cs[c].pc = "ret" /\ cs[c].err = "NoAnchor"
    /\ cs[c].nRefresh = 1 /\ cs[c].refreshErr
    /\ db # Nil

\* C10: a call whose root is not expired and carries an empty hash returns
\* NoHash, having looked into no cache, fetched nothing and started no dbSet
\* goroutine; the memory entry is as the call found it, and no step of a call
\* changes what LocalDb holds.
C10_Case(call) ==
  /\ call.pc \in Checked /\ call.root # Nil
  /\ call.diff >= 0 /\ call.diff <= tRequireRefresh
  /\ call.root[1].hash = ""

C10_NoHash ==
  [][/\ \A c \in Callers :
          C10_Case(cs'[c]) =>
            (/\ cs'[c].pc = "ret" /\ cs'[c].err = "NoHash"
             /\ cs'[c].nMemGet = 0 /\ cs'[c].nDbGet = 0 /\ cs'[c].nFetch = 0
             /\ mem' = cs'[c].mem0
             /\ ~\E t \in bg' : t.by = c)
      /\ (CallStep => db' = db)]_vars

C10_Witness ==
  \E c \in Callers :
    C10_Case(cs[c]) /\ cs[c].err = "NoHash" /\ mem # Nil /\ db # Nil

\* The lookups of the hash of the latest put return its document, whether
\* or not LocalDb can be read.
RoundTrip ==
  /\ put # Nil
  /\ \A readErr \in BOOLEAN : Get(readErr, put[1].Hash) = Some(put[1].PvlKit)

\* A call returns a document of another hash than h that it found in LocalDb
\* (and has stored to memory).
StoreHitOther(h) ==
  \E c \in Callers :
    /\ cs[c].pc = "dbget" /\ cs'[c].pc = "ret" /\ cs'[c].err = ""
    /\ cs[c].hash # h
    /\ mem' = Some(entry(dbVersion, cs[c].hash, cs'[c].ret))

\* C11 as stated: once (h, p) has been put (memSet and the dbSet goroutine
\* started), the lookups of h return p, whether the goroutine has run or
\* not, until a put of another hash.  (Stated for a LocalDb that holds
\* nothing of an older dbVersion.)
C11_Original ==
  (put # Nil /\ (db = Nil \/ db[1].DBVersion = dbVersion)) => RoundTrip

\* C11 amended: a put of (h, p) makes the lookups of h return p, whether the
\* dbSet goroutine has run or not, and they go on returning p until a put of
\* another hash or until a call that resolves another hash finds it in
\* LocalDb and stores it to memory; nothing else ends the round trip.
C11_RoundTrip ==
  [][/\ (put' # put => RoundTrip')
     /\ ((RoundTrip /\ put' = put /\ ~RoundTrip') => StoreHitOther(put[1].Hash))]_vars

C11_Witness ==
  /\ RoundTrip
  /\ \E t \in bg : t.Hash = put[1].Hash
  /\ db # Nil /\ db[1].Hash # put[1].Hash
  /\ \E c \in Callers : cs[c].pc = "done"

\* The call of GetPVL has returned, and GetKitString had given it a
\* well-formed kit.
Looked(call) ==
  call.pc = "done" /\ call.kitErr = "" /\ unmarshal(call.kitJSON).err = ""

\* C12: GetPVL(v) on a well-formed kit whose Tab has no key v fails with
\* MissingVersion and returns nothing; and whenever GetPVL succeeds, what it
\* returns is the ruleset the kit holds under v itself.
C12_MissingVersion ==
  \A c \in Callers :
    /\ (Looked(cs[c]) /\ cs[c].pvlVersion \notin DOMAIN unmarshal(cs[c].kitJSON).Tab)
         => (cs[c].err = "MissingVersion" /\ cs[c].ret = <<>>)
    /\ (cs[c].pc = "done" /\ cs[c].err = "")
         => (/\ Looked(cs[c])
             /\ cs[c].pvlVersion \in DOMAIN unmarshal(cs[c].kitJSON).Tab
             /\ cs[c].ret = unmarshal(cs[c].kitJSON).Tab[cs[c].pvlVersion])

C12_Witness ==
  \E c \in Callers :
    /\ Looked(cs[c]) /\ cs[c].pvlVersion = 5
    /\ DOMAIN unmarshal(cs[c].kitJSON).Tab = {3, 7}
    /\ cs[c].err = "MissingVersion"

\* C13: GetPVL(v) on a well-formed kit whose Tab holds, under v, a ruleset of
\* length zero fails with EmptyVersion and returns nothing.
C13_Case(call) ==
  /\ Looked(call)
  /\ call.pvlVersion \in DOMAIN unmarshal(call.kitJSON).Tab
  /\ Len(unmarshal(call.kitJSON).Tab[call.pvlVersion]) = 0

StoreFailed(call) == call.nDbGet = 1 /\ (~g.LocalDb \/ call.dbErr)

\* The errors fetch returns.
FetchErrors == {"Transport", "EmptyPayload", "HashMismatch"}

\* C14: a call that missed in memory and whose dbGet found no LocalDb, or
\* got an error reading it, goes on to the server fetch with no error and
\* with memory untouched, as on a miss; it then returns the fetched document
\* exactly when the server answered with a non-empty document of the
\* requested hash, and otherwise one of fetch's errors, never one of the store.
C14_StoreFailureIsMiss ==
  [][\A c \in Callers :
       /\ (cs[c].pc = "dbget" /\ cs'[c] # cs[c] /\ StoreFailed(cs'[c])) =>
            (/\ cs[c].nMemGet = 1 /\ memGet(cs[c].hash) = Nil
             /\ cs'[c].pc = "fetch" /\ cs'[c].err = "" /\ mem' = mem)
       /\ (cs[c].pc = "fetch" /\ cs'[c] # cs[c] /\ StoreFailed(cs[c])) =>
            (/\ cs'[c].pc = "ret" /\ cs'[c].nFetch = 1
             /\ (cs'[c].err = "" <=>
                   (cs'[c].res # "" /\ hash(cs'[c].res) = cs[c].hash))
             /\ (cs'[c].err = "" => cs'[c].ret = cs'[c].res)
             /\ cs'[c].err \in FetchErrors \cup {""})]_vars

C14_Witness ==
  \E c \in Callers :
    /\ cs[c].pc = "fetch" /\ cs[c].dbErr
    /\ db # Nil /\ db[1].Hash = cs[c].hash

\* The call went through s.Lock() and has evaluated a return with no error.
Succeeded(call) == call.pc = "ret" /\ call.err = "" /\ call.nLastRoot >= 1

\* C15: whatever the calls and the dbSet goroutines did before, a call
\* without override that returns with no error returns a document whose
\* digest is the hash it resolved, which is the PvlHash of the root it used;
\* LocalDb held at the start nothing but an entry a dbSet wrote (a document
\* under its own digest).
C15_DigestOfReturned ==
  \A c \in Callers :
    Succeeded(cs[c]) =>
      (/\ cs[c].root # Nil /\ cs[c].hash = cs[c].root[1].hash
       /\ cs[c].hash # ""
       /\ hash(cs[c].ret) = cs[c].hash)

C15_Witness ==
  \E c \in Callers :
    /\ Succeeded(cs[c]) /\ cs[c].nDbGet = 0
    /\ hash(cs[c].ret) = cs[c].hash
    /\ db # Nil /\ db[1].Hash # cs[c].hash
    /\ put # Nil /\ bg = {}

\* The calls that have asked the server, and those that have looked for
\* the hash in the caches and have their result.
Requesters == {c \in Callers : cs[c].nFetch = 1}
Resolved == {c \in Callers : cs[c].pc \in {"ret", "done"} /\ cs[c].nMemGet = 1}

\* C16: with the one hash h1, cold caches and a server that answers with the
\* document of h1, the calls together ask the server at most once, and
\* exactly once as soon as one of them has resolved the hash and has its
\* result; every call that resolved the hash without asking the server got
\* its result from memory (no dbGet), and while no call has asked the server
\* memory is empty.
C16_SingleFetch ==
  /\ Cardinality(Requesters) <= 1
  /\ (Resolved # {} => Cardinality(Requesters) = 1)
  /\ \A c \in Resolved \ Requesters : cs[c].nDbGet = 0
  /\ (Requesters = {} <=> mem = Nil)

C16_Witness ==
  /\ \A c \in Callers : cs[c].pc = "done" /\ cs[c].nMemGet = 1
  /\ Cardinality(Requesters) = 1
  /\ g.LocalDb /\ db = Nil

\* The calls between root := mc.LastRoot() and the end of their return.
InCritical ==
  {c \in Callers : \/ cs[c].pc \in {"refresh", "check", "dbget", "fetch"}
                   \/ (cs[c].pc = "ret" /\ cs[c].nLastRoot >= 1)}

\* C17: at most one call is between its read of the root and its return,
\* and it is the holder of the mutex; so no two calls are at once at the
\* refresh, at dbGet, at fetch or at a return that has just stored to memory.
C17_OneInside ==
  /\ Cardinality(InCritical) <= 1
  /\ \A c \in InCritical : mu = Some(c)
  /\ (InCritical = {} => mu = Nil)

C17_Witness ==
  \E c, d \in Callers :
    /\ cs[c].pc = "fetch" /\ mu = Some(c)
    /\ cs[d].pc = "lock"

\* The entry is whole: of the current dbVersion, under a hash that is not
\* empty and is the digest of its document.
Whole(e) == e.DBVersion = dbVersion /\ e.Hash # "" /\ hash(e.PvlKit) = e.Hash

\* C18: in every state the memory entry, if any, is whole, and so is what
\* LocalDb holds unless it is still the entry found there at the start;
\* every dbSet goroutine waiting to run carries a hash with its own
\* document.  No state pairs the hash of one memSet or dbSet with the
\* document of another.
C18_WholeEntries ==
  /\ (mem # Nil => Whole(mem[1]))
  /\ (db # Nil => (Whole(db[1]) \/ (db \in StoredAtStart /\ db[1].Hash = hash(db[1].PvlKit))))
  /\ \A t \in bg : t.Hash # "" /\ hash(t.PvlKit) = t.Hash

C18_Witness ==
  /\ mem # Nil /\ db # Nil /\ bg # {}
  /\ db[1].Hash = "h2" /\ mem[1].Hash = "h1"
  /\ \E t \in bg : t.Hash = mem[1].Hash

\* LocalDb holds, readable, an entry of the current version under h.
StoreHolds(h) ==
  g.LocalDb /\ db # Nil /\ db[1].DBVersion = dbVersion /\ db[1].Hash = h

\* C19: a call looks into memory first; a hit there is returned with no
\* dbGet and no fetch and changes nothing.  Only after a miss in memory
\* does it read LocalDb; what it finds there under its hash it returns and
\* stores to memory, with no fetch and no dbSet goroutine, and LocalDb as
\* it was.  Only after a miss there too (no LocalDb, a read error, nothing
\* or another hash or version stored) does it ask the server.
C19_TierOrder ==
  [][\A c \in Callers :
       /\ (cs[c].pc = "check" /\ cs'[c].nMemGet = 1) =>
            IF memGet(cs'[c].hash) # Nil
            THEN /\ cs'[c].pc = "ret" /\ cs'[c].err = ""
                 /\ cs'[c].ret = mem[1].PvlKit
                 /\ cs'[c].nDbGet = 0 /\ cs'[c].nFetch = 0
                 /\ UNCHANGED <<mem, db, bg>>
            ELSE cs'[c].pc = "dbget" /\ cs'[c].nDbGet = 0 /\ cs'[c].nFetch = 0
       /\ (cs'[c].nDbGet = 1 /\ cs[c].nDbGet = 0) =>
            (/\ cs[c].pc = "dbget" /\ cs[c].nMemGet = 1
             /\ memGet(cs[c].hash) = Nil
             /\ cs'[c].nFetch = 0
             /\ IF cs'[c].pc = "ret"
                THEN /\ db # Nil /\ db[1].Hash = cs[c].hash
                     /\ cs'[c].err = "" /\ cs'[c].ret = db[1].PvlKit
                     /\ mem' = Some(entry(dbVersion, cs[c].hash, db[1].PvlKit))
                     /\ UNCHANGED <<db, bg>>
                ELSE /\ cs'[c].pc = "fetch" /\ mem' = mem
                     /\ (~StoreHolds(cs[c].hash) \/ cs'[c].dbErr))
       /\ (cs'[c].nFetch = 1 /\ cs[c].nFetch = 0) =>
            (/\ cs[c].pc = "fetch" /\ cs[c].nMemGet = 1 /\ cs[c].nDbGet = 1
             /\ memGet(cs[c].hash) = Nil)]_vars

C19_Witness ==
  \E c \in Callers :
    /\ cs[c].pc = "ret" /\ cs[c].err = ""
    /\ cs[c].nMemGet = 1 /\ cs[c].nDbGet = 1 /\ cs[c].nFetch = 0
    /\ cs[c].mem0 # Nil
    /\ mem = Some(entry(dbVersion, cs[c].hash, cs[c].ret))
    /\ ~\E t \in bg : t.by = c

\* The call found in memory, when it took the mutex, a document of another
\* hash than the one it resolved: the hash of the root has changed.
HashChanged(call) ==
  call.nMemGet = 1 /\ call.mem0 # Nil /\ call.mem0[1].Hash # call.hash

\* C20: a call that resolves a hash other than the one memory (and LocalDb)
\* hold a document for returns an error or the document of the hash it
\* resolved, never the cached one, and on success memory holds that hash with
\* the returned document; and the memory entry, once there, is replaced but
\* never removed.
C20_HashChange ==
  [][/\ (mem # Nil => mem' # Nil)
     /\ \A c \in Callers :
          (cs'[c].pc = "ret" /\ HashChanged(cs'[c])) =>
            (\/ cs'[c].err # "" /\ cs'[c].ret = ""
             \/ /\ cs'[c].err = ""
                /\ hash(cs'[c].ret) = cs'[c].hash
                /\ cs'[c].ret # cs'[c].mem0[1].PvlKit
                /\ mem' = Some(entry(dbVersion, cs'[c].hash, cs'[c].ret)))]_vars

C20_Witness ==
  \E c \in Callers :
    /\ cs[c].pc = "ret" /\ cs[c].err = "" /\ HashChanged(cs[c])
    /\ cs[c].mem0[1].Hash = "h1" /\ cs[c].hash = "h2"
    /\ db # Nil /\ db[1].Hash = "h1"
    /\ mem = Some(entry(dbVersion, "h2", cs[c].ret))

\* The errors GetKitString returns.
KitErrors ==
  {"ReadFile", "NoMerkleClient", "NoAnchor", "StaleAnchor", "NoHash"}
    \cup FetchErrors

\* C21: the step in which a call evaluates a return with an error changes
\* neither the memory entry nor LocalDb and starts no dbSet goroutine; the
\* call returns no document, has started no goroutine at any earlier step,
\* and, when it had taken the mutex, memory is still the entry it found then.
C21_ErrorLeavesCaches ==
  [][\A c \in Callers :
       (cs[c].pc # "ret" /\ cs'[c].pc = "ret" /\ cs'[c].err # "") =>
         (/\ cs'[c].err \in KitErrors /\ cs'[c].ret = ""
          /\ UNCHANGED <<mem, db, bg, put>>
          /\ ~\E t \in bg' : t.by = c
          /\ (cs'[c].nLastRoot >= 1 => mem' = cs'[c].mem0))]_vars

C21_Witness ==
  \E c \in Callers :
    /\ cs[c].pc = "ret" /\ cs[c].err = "EmptyPayload"
    /\ mem # Nil /\ mem = cs[c].mem0 /\ mem[1].Hash # cs[c].hash
    /\ ~\E t \in bg : t.by = c

\* C22: the step of a call's refresh attempt leaves it, when the refresh
\* returned no error, with the root the MerkleClient holds after it (a
\* second read of LastRoot), and, when it returned an error, with the root
\* read before and no second read.  The step after it uses that root and no
\* other: NoAnchor if there is none, else its Fetched() for the expiry
\* check and its PvlHash() as the hash; later steps keep the root.
C22_RootAfterRefresh ==
  [][\A c \in Callers :
       /\ (cs[c].pc = "refresh" /\ cs'[c] # cs[c]) =>
            (/\ cs'[c].pc = "check" /\ cs'[c].nRefresh = 1
             /\ IF cs'[c].refreshErr
                THEN cs'[c].root = cs[c].root /\ cs'[c].nLastRoot = 1
                ELSE cs'[c].root = lastRoot' /\ cs'[c].nLastRoot = 2)
       /\ (cs[c].pc = "check" /\ cs'[c] # cs[c]) =>
            (/\ cs'[c].root = cs[c].root
             /\ IF cs[c].root = Nil
                THEN cs'[c].pc = "ret" /\ cs'[c].err = "NoAnchor"
                ELSE /\ cs'[c].diff = now - cs[c].root[1].fetched
                     /\ cs'[c].err # "NoAnchor"
                     /\ (cs'[c].err = "StaleAnchor" <=> cs'[c].diff > tRequireRefresh)
                     /\ (cs'[c].nMemGet = 1 => cs'[c].hash = cs[c].root[1].hash))
       /\ (cs[c].pc \in {"dbget", "fetch"} /\ cs'[c] # cs[c]) =>
            (cs'[c].root = cs[c].root /\ cs'[c].hash = cs[c].hash)]_vars

C22_Witness ==
  \E c \in Callers :
    /\ cs[c].pc = "ret" /\ cs[c].err = ""
    /\ cs[c].nRefresh = 1 /\ ~cs[c].refreshErr /\ cs[c].nLastRoot = 2
    /\ cs[c].diff1 > tRequireRefresh /\ cs[c].diff <= tShouldRefresh
    /\ cs[c].hash = cs[c].root[1].hash
====
